---- MODULE Spec2Model ----
(***************************************************************************)
(* Session feedback aggregation (responseService.compileSessionStats),     *)
(* the close operation (sessionService.closeSessionWithStats) and the      *)
(* handlers that drive them (SessionsTab, AnonymousFeedback).              *)
(*                                                                         *)
(* Numbers.  A JavaScript number that the code produces by dividing is a   *)
(* ratio [n |-> numerator, d |-> denominator] here, computed exactly.  A   *)
(* number the code has rounded with Math.round(x * 100) / 100 is the       *)
(* integer count of hundredths (4.67 is 467).                              *)
(* Text.  A string is the sequence of its characters, so that trim() is    *)
(* computed and not assumed.                                               *)
(* Left out: the questionStats field of the compiled record and the        *)
(* questionId of an answer; deleteSession; the expiresAt test of           *)
(* loadSession, which reads the wall clock.                                *)
(* The question list and templateId of a session document are followed    *)
(* in SpecEdit only.                                                       *)
(***************************************************************************)
EXTENDS Integers, Sequences, FiniteSets, TLC

\* Largest number of responses of one compiled response set.
MaxResponses == 3

----------------------------------------------------------------------------
(* Exact arithmetic on ratios *)

Ratio(n, d) == [n |-> n, d |-> d]

Zero == Ratio(0, 1)

Less(a, b) == a.n * b.d < b.n * a.d

SameValue(a, b) == a.n * b.d = b.n * a.d

Plus(a, b) == Ratio(a.n * b.d + b.n * a.d, a.d * b.d)

Over(a, k) == Ratio(a.n, a.d * k)

\* Math.round(x * 100) for x >= 0: the nearest count of hundredths, halves up.
Round2(a) == (200 * a.n + a.d) \div (2 * a.d)

\* Math.ceil(n * 0.2)
CeilFifth(n) == (n + 4) \div 5

----------------------------------------------------------------------------
(* Answers and responses *)

\* The ratings the feedback form offers.
RatingScale == 1..5

WhiteSpace == {" "}

RECURSIVE TrimStart(_)
TrimStart(s) ==
    IF s # <<>> /\ Head(s) \in WhiteSpace THEN TrimStart(Tail(s)) ELSE s

RECURSIVE TrimEnd(_)
TrimEnd(s) ==
    IF s # <<>> /\ s[Len(s)] \in WhiteSpace
    THEN TrimEnd(SubSeq(s, 1, Len(s) - 1))
    ELSE s

\* String.prototype.trim
Trim(s) == TrimEnd(TrimStart(s))

Answer(t, v) == [type |-> t, value |-> v]

IsRating(a) == a.type = "rating"

\* Any text answer, blank or not.
IsTextAnswer(a) == a.type = "text"

\* a.type === 'text' && a.value?.trim()
IsComment(a) == a.type = "text" /\ Trim(a.value) # <<>>

\* Number(a.value) || 0: the value itself, for the numbers a rating answer
\* holds (handleRatingChange stores parseInt of the chosen radio value).
NumberOrZero(v) == v

RECURSIVE SumValues(_)
SumValues(as) ==
    IF as = <<>> THEN 0 ELSE NumberOrZero(Head(as).value) + SumValues(Tail(as))

Response(id, deviceId, answers) ==
    [id |-> id, deviceId |-> deviceId, answers |-> answers]

----------------------------------------------------------------------------
(* compileSessionStats *)

NoStats == [totalResponses |-> -1]

ratingAnswers(answers) == SelectSeq(answers, IsRating)

\* One element of responseStats.
responseStat(response) ==
    LET answers == response.answers
        ras     == ratingAnswers(answers)
    IN  [responseId   |-> response.id,
         avgRating    |-> IF Len(ras) > 0
                          THEN Ratio(SumValues(ras), Len(ras))
                          ELSE Zero,
         textComments |-> LET textAnswers == SelectSeq(answers, IsComment)
                          IN  [i \in 1..Len(textAnswers) |-> textAnswers[i].value],
         answers      |-> answers]

responseStats(responses) ==
    [i \in 1..Len(responses) |-> responseStat(responses[i])]

\* allRatings without its filter: every response's average, a 0 included.
allRatingsUnfiltered(stats) == [i \in 1..Len(stats) |-> stats[i].avgRating]

\* responseStats.map(r => r.avgRating).filter(r => r > 0)
allRatings(stats) ==
    SelectSeq([i \in 1..Len(stats) |-> stats[i].avgRating], LAMBDA r : Less(Zero, r))

\* The sum of the ratios, added up by halves.
RECURSIVE SumRatios(_)
SumRatios(rs) ==
    IF rs = <<>> THEN Zero
    ELSE IF Len(rs) = 1 THEN Plus(Zero, rs[1])
    ELSE Plus(SumRatios(SubSeq(rs, 1, Len(rs) \div 2)),
              SumRatios(SubSeq(rs, Len(rs) \div 2 + 1, Len(rs))))

\* "Default to middle if no ratings"
DefaultAvgRating == Ratio(5, 2)

globalAvgRating(ratings) ==
    IF Len(ratings) > 0
    THEN Over(SumRatios(ratings), Len(ratings))
    ELSE DefaultAvgRating

\* Math.max(...rs)
MaxRatio(rs) == rs[CHOOSE i \in DOMAIN rs : \A j \in DOMAIN rs : ~Less(rs[i], rs[j])]

\* Math.min(...rs)
MinRatio(rs) == rs[CHOOSE i \in DOMAIN rs : \A j \in DOMAIN rs : ~Less(rs[j], rs[i])]

topRatingOf(ratings) == IF Len(ratings) > 0 THEN MaxRatio(ratings) ELSE Zero

leastRatingOf(ratings) == IF Len(ratings) > 0 THEN MinRatio(ratings) ELSE Zero

\* Array.prototype.sort((a, b) => b.avgRating - a.avgRating) is a stable sort:
\* the elements with the largest average come first, in the order they have
\* in s, then the others sorted the same way.
RECURSIVE SortDescending(_)
SortDescending(s) ==
    IF s = <<>> THEN <<>>
    ELSE LET top == s[CHOOSE i \in DOMAIN s :
                         \A j \in DOMAIN s : ~Less(s[i].avgRating, s[j].avgRating)]
         IN  SelectSeq(s, LAMBDA r : SameValue(r.avgRating, top.avgRating))
                 \o SortDescending(
                        SelectSeq(s, LAMBDA r : Less(r.avgRating, top.avgRating)))

\* A sort that puts x before the elements it ties with.
RECURSIVE InsertBeforeEqual(_, _)
InsertBeforeEqual(x, s) ==
    IF s = <<>> THEN <<x>>
    ELSE IF ~Less(x.avgRating, Head(s).avgRating)
         THEN <<x>> \o s
         ELSE <<Head(s)>> \o InsertBeforeEqual(x, Tail(s))

RECURSIVE SortUnstable(_)
SortUnstable(s) ==
    IF s = <<>> THEN <<>>
    ELSE LET n == Len(s)
         IN  InsertBeforeEqual(s[n], SortUnstable(SubSeq(s, 1, n - 1)))

\* The responses left in the order they were fetched in.
Unsorted(stats) == stats

sortedResponses(stats) == SortDescending(stats)

\* Array.prototype.slice(from, to) with 0 <= from and 0 <= to.
Slice(s, from, to) ==
    LET lo == IF from > Len(s) THEN Len(s) ELSE from
        hi == IF to > Len(s) THEN Len(s) ELSE to
    IN  SubSeq(s, lo + 1, hi)

Reverse(s) == [i \in 1..Len(s) |-> s[Len(s) + 1 - i]]

\* A cutoff that rounds the fifth down.
topCutoffFloor(totalCount) == totalCount \div 5

topCutoff(totalCount) == CeilFifth(totalCount)

bottomCutoff(totalCount) == CeilFifth(totalCount)

highRated(sorted) == Slice(sorted, 0, topCutoff(Len(sorted)))

\* The low slice left in sorted order, highest first.
lowRatedUnreversed(sorted) ==
    Slice(sorted, Len(sorted) - bottomCutoff(Len(sorted)), Len(sorted))

lowRated(sorted) ==
    Reverse(Slice(sorted, Len(sorted) - bottomCutoff(Len(sorted)), Len(sorted)))

avgRated(sorted) ==
    Slice(sorted, topCutoff(Len(sorted)), Len(sorted) - bottomCutoff(Len(sorted)))

\* The comment entry pushed for one text comment of resp.
CommentEntry(resp, comment) ==
    [text       |-> comment,
     avgRating  |-> Round2(resp.avgRating),
     responseId |-> resp.responseId]

\* An inner loop that takes one comment of a response at most.
PushFirstComment(resp, texts, comments, count) ==
    IF texts = <<>> \/ Len(comments) >= count THEN comments
    ELSE Append(comments, CommentEntry(resp, Head(texts)))

\* The inner loop of extractComments: push while comments.length < count.
RECURSIVE PushComments(_, _, _, _)
PushComments(resp, texts, comments, count) ==
    IF texts = <<>> THEN comments
    ELSE PushComments(resp, Tail(texts),
                      IF Len(comments) < count
                      THEN Append(comments, CommentEntry(resp, Head(texts)))
                      ELSE comments,
                      count)

\* The outer loop of extractComments, with its usedResponseIds set.
RECURSIVE ExtractLoop(_, _, _, _)
ExtractLoop(resps, comments, usedResponseIds, count) ==
    IF resps = <<>> THEN comments
    ELSE LET resp == Head(resps)
         IN  IF resp.responseId \in usedResponseIds
             THEN ExtractLoop(Tail(resps), comments, usedResponseIds, count)
             ELSE LET pushed == PushComments(resp, resp.textComments, comments, count)
                      used   == IF Len(pushed) > Len(comments)
                                THEN usedResponseIds \cup {resp.responseId}
                                ELSE usedResponseIds
                  IN  IF Len(pushed) >= count
                      THEN pushed
                      ELSE ExtractLoop(Tail(resps), pushed, used, count)

CommentCount == 5

extractComments(resps, count) == ExtractLoop(resps, <<>>, {}, count)

\* The rating answers of every response, in order.
RECURSIVE AllRatingAnswers(_)
AllRatingAnswers(stats) ==
    IF stats = <<>> THEN <<>>
    ELSE IF Len(stats) = 1 THEN ratingAnswers(stats[1].answers)
    ELSE AllRatingAnswers(SubSeq(stats, 1, Len(stats) \div 2))
             \o AllRatingAnswers(SubSeq(stats, Len(stats) \div 2 + 1, Len(stats)))

\* A distribution that counts each response once, at its rounded average.
ratingDistributionOfAverages(stats) ==
    [val \in RatingScale |->
        Cardinality({i \in 1..Len(stats) :
            /\ Less(Zero, stats[i].avgRating)
            /\ (2 * stats[i].avgRating.n + stats[i].avgRating.d)
                   \div (2 * stats[i].avgRating.d) = val})]

\* val = Math.round(Number(a.value) || 0); counted when 1 <= val <= 5.
ratingDistribution(stats) ==
    LET ras == AllRatingAnswers(stats)
    IN  [val \in RatingScale |->
            Cardinality({i \in 1..Len(ras) : NumberOrZero(ras[i].value) = val})]

\* The empty case left to the general path, which defaults avgRating to 2.5.
EmptyStatsMiddle(now) ==
    [totalResponses     |-> 0,
     avgRating          |-> Round2(DefaultAvgRating),
     topRating          |-> 0,
     leastRating        |-> 0,
     ratingDistribution |-> [val \in RatingScale |-> 0],
     topComments        |-> <<>>,
     leastRatedComments |-> <<>>,
     avgComments        |-> <<>>,
     compiledAt         |-> now]

EmptyStats(now) ==
    [totalResponses     |-> 0,
     avgRating          |-> 0,
     topRating          |-> 0,
     leastRating        |-> 0,
     ratingDistribution |-> [val \in RatingScale |-> 0],
     topComments        |-> <<>>,
     leastRatedComments |-> <<>>,
     avgComments        |-> <<>>,
     compiledAt         |-> now]

\* compileSessionStats on the responses getResponses returned, at time now.
compileSessionStats(responses, now) ==
    IF Len(responses) = 0 THEN EmptyStats(now)
    ELSE LET stats   == responseStats(responses)
             ratings == allRatings(stats)
             sorted  == sortedResponses(stats)
         IN  [totalResponses     |-> Len(responses),
              avgRating          |-> Round2(globalAvgRating(ratings)),
              topRating          |-> Round2(topRatingOf(ratings)),
              leastRating        |-> Round2(leastRatingOf(ratings)),
              ratingDistribution |-> ratingDistribution(stats),
              topComments        |-> extractComments(highRated(sorted), CommentCount),
              leastRatedComments |-> extractComments(lowRated(sorted), CommentCount),
              avgComments        |-> extractComments(avgRated(sorted), CommentCount),
              compiledAt         |-> now]

----------------------------------------------------------------------------
(* The response sets the aggregation is checked on *)

Blank == <<" ">>

\* The rating answers of a response: none, one, or two.
RatingLists ==
    {<<>>,
     <<Answer("rating", 1)>>,
     <<Answer("rating", 5)>>,
     <<Answer("rating", 4), Answer("rating", 5)>>,
     <<Answer("rating", 1), Answer("rating", 5)>>}

\* The other answers of a response: none, a blank text, or two comments
\* around a multiple-choice answer.
OtherLists ==
    {<<>>,
     <<Answer("text", Blank)>>,
     <<Answer("text", <<"a">>), Answer("mcq", <<"x">>), Answer("text", <<" ", "b">>)>>}

AnswerLists == {r \o o : r \in RatingLists, o \in OtherLists}

----------------------------------------------------------------------------
(* State *)

Sessions == {"s1", "s2"}

\* The sessions the admins and students of Spec work on.
Focus == {"s1"}

Admins == {"a1", "a2"}

\* The browser tabs a feedback form is opened in, and the device of each.
Tabs == {"t1", "t2"}

DeviceOf(t) == "d1"

Devices == {DeviceOf(t) : t \in Tabs}

VARIABLES
    sessions,     \* session id -> the session document (status, compiledStats)
    stored,       \* session id -> the responses of the session, oldest first
    adm,          \* admin -> the SessionsTab state of that admin
    tab,          \* tab -> the AnonymousFeedback state of that tab
    localStorage, \* device -> the sessions with a feedback_submitted_ key
    cin,          \* the responses getResponses returned to compileSessionStats
    cout,         \* the record compileSessionStats returned, NoStats before it has
    now           \* the clock that new Date() reads

vars == <<sessions, stored, adm, tab, localStorage, cin, cout, now>>

\* One collection that holds the responses of every session.
sharedResponsesCollection(sessionId) == stored["s1"] \o stored["s2"]

\* collection(db, 'sessions', sessionId, 'responses')
getResponsesCollection(sessionId) == stored[sessionId]

\* getResponses: orderBy('submittedAt', 'desc'), the newest response first.
getResponses(docs) == Reverse(docs)

\* One response document per device: a second submission replaces the first.
addResponsePerDevice(docs, deviceId, answers) ==
    SelectSeq(docs, LAMBDA r : r.deviceId # deviceId)
        \o <<Response(Len(docs) + 1, deviceId, answers)>>

\* addResponse: a new document, whose id no other response of the session has.
addResponse(docs, deviceId, answers) ==
    Append(docs, Response(Len(docs) + 1, deviceId, answers))

\* A session document; compiledStats = NoStats is a document without the field.
Doc(status, compiledStats) == [status |-> status, compiledStats |-> compiledStats]

\* No document with that id.
NoDoc == Doc("none", NoStats)

\* An admin with no handler running and no dialog open.  toast is the toast
\* the admin's last handler has shown and failed the call that failed in it,
\* "none" when there is none.
IdleAdmin(toast) ==
    [pc |-> "idle", sid |-> "none", stats |-> NoStats, formData |-> NoDoc,
     toast |-> toast, failed |-> "none"]

\* The catch of a handler: the error toast, after call has thrown.
FailedAdmin(call) == [IdleAdmin("failed") EXCEPT !.failed = call]

NoTab == [pc |-> "none", sid |-> "none", error |-> FALSE]

Init ==
    /\ sessions = [s \in Sessions |-> NoDoc]
    /\ stored = [s \in Sessions |-> <<>>]
    /\ adm = [a \in Admins |-> IdleAdmin("none")]
    /\ tab = [t \in Tabs |-> NoTab]
    /\ localStorage = [d \in Devices |-> {}]
    /\ cin = <<>>
    /\ cout = NoStats
    /\ now = 0

----------------------------------------------------------------------------
(* The aggregation alone: responses are stored, then compiled once *)

\* The session whose responses are compiled.
Subject == "s1"

InitCompile == Init

Store(answers) ==
    /\ cout = NoStats
    /\ Len(stored[Subject]) < MaxResponses
    /\ stored' = [stored EXCEPT ![Subject] = addResponse(@, "d1", answers)]
    /\ UNCHANGED <<sessions, adm, tab, localStorage, cin, cout, now>>

\* The compilation with the fetched array sorted in place, highest first.
CompileInPlace ==
    /\ cout = NoStats
    /\ LET fetched == getResponses(getResponsesCollection(Subject))
           sorted  == sortedResponses(responseStats(fetched))
       IN  /\ cin' = [i \in DOMAIN fetched |->
                         CHOOSE r \in {fetched[j] : j \in DOMAIN fetched} :
                             r.id = sorted[i].responseId]
           /\ cout' = compileSessionStats(fetched, now)
    /\ now' = now + 1
    /\ UNCHANGED <<sessions, stored, adm, tab, localStorage>>

Compile ==
    /\ cout = NoStats
    /\ cin' = getResponses(getResponsesCollection(Subject))
    /\ cout' = compileSessionStats(cin', now)
    /\ now' = now + 1
    /\ UNCHANGED <<sessions, stored, adm, tab, localStorage>>

NextCompile ==
    \/ \E answers \in AnswerLists : Store(answers)
    \/ Compile

SpecCompile == InitCompile /\ [][NextCompile]_vars

----------------------------------------------------------------------------
(* The aggregation on large response sets: responses are stored in runs of *)
(* equal answers, then compiled once                                       *)

\* Largest number of responses of a large response set: the least number
\* whose high bucket holds 10 responses.
MaxSubmissions == 46

\* A rating with two comments, a rating with a blank text and a comment, a
\* rating with one comment.
RunLists ==
    <<<<Answer("rating", 5), Answer("text", <<"a">>), Answer("text", <<"b">>)>>,
      <<Answer("rating", 3), Answer("text", Blank), Answer("text", <<"c">>)>>,
      <<Answer("rating", 1), Answer("text", <<"d">>)>>>>

\* The place of the answers of the newest stored response in RunLists, 1 when
\* no response is stored.
LastRun(docs) ==
    IF docs = <<>> THEN 1
    ELSE CHOOSE k \in DOMAIN RunLists : RunLists[k] = docs[Len(docs)].answers

StoreRun(k) ==
    /\ cout = NoStats
    /\ Len(stored[Subject]) < MaxSubmissions
    /\ k >= LastRun(stored[Subject])
    /\ stored' = [stored EXCEPT ![Subject] = addResponse(@, "d1", RunLists[k])]
    /\ UNCHANGED <<sessions, adm, tab, localStorage, cin, cout, now>>

NextRuns ==
    \/ \E k \in DOMAIN RunLists : StoreRun(k)
    \/ Compile

SpecRuns == InitCompile /\ [][NextRuns]_vars

----------------------------------------------------------------------------
(* The aggregation on malformed responses: rating answers hold numbers in   *)
(* and outside 1..5                                                        *)

\* Numbers a malformed rating answer may hold, with two well-formed ones.
LooseValues == {0, 3, 5, 7}

\* One or two rating answers with such values.
LooseLists ==
    {<<Answer("rating", v)>> : v \in LooseValues}
        \cup {<<Answer("rating", v), Answer("rating", w)>> : v, w \in LooseValues}

StoreLoose(answers) ==
    /\ cout = NoStats
    /\ Len(stored[Subject]) < MaxResponses
    /\ stored' = [stored EXCEPT ![Subject] = addResponse(@, "d1", answers)]
    /\ UNCHANGED <<sessions, adm, tab, localStorage, cin, cout, now>>

NextLoose ==
    \/ \E answers \in LooseLists : StoreLoose(answers)
    \/ Compile

SpecLoose == InitCompile /\ [][NextLoose]_vars

----------------------------------------------------------------------------
(* AnonymousFeedback: a student's tab *)

\* The questions of a session: a required rating and an optional comment.
Questions ==
    <<[id |-> "q1", type |-> "rating", required |-> TRUE],
      [id |-> "q2", type |-> "text", required |-> FALSE]>>

\* responses[q.id] of a question the student has not touched.
Untouched == [type |-> "none", value |-> <<>>]

\* The responses state a student can have built with handleRatingChange and
\* handleTextChange: a rating or none, a text (possibly emptied again) or none.
FormInputs ==
    {[q1 |-> r, q2 |-> c] :
        r \in {Untouched, Answer("rating", 5)},
        c \in {Untouched, Answer("text", <<>>), Answer("text", <<"a">>)}}

\* responses[q.id]?.value is truthy
HasValue(entry) ==
    CASE entry.type = "none"   -> FALSE
      [] entry.type = "rating" -> entry.value # 0
      [] OTHER                 -> entry.value # <<>>

\* A required question has no value.
MissingRequired(questions, input) ==
    \E i \in DOMAIN questions :
        questions[i].required /\ ~HasValue(input[questions[i].id])

\* questions.map(...) without the filter: one entry per question.
FormatAllAnswers(questions, input) ==
    [i \in DOMAIN questions |-> input[questions[i].id]]

\* questions.map(...).filter(a => a.value !== null)
RECURSIVE FormatAnswers(_, _)
FormatAnswers(questions, input) ==
    IF questions = <<>> THEN <<>>
    ELSE LET entry == input[Head(questions).id]
         IN  (IF HasValue(entry) THEN <<Answer(entry.type, entry.value)>> ELSE <<>>)
                 \o FormatAnswers(Tail(questions), input)

TabState(pc, sid, error) == [pc |-> pc, sid |-> sid, error |-> error]

\* The component mounts: loadSession and checkPreviousSubmission.
LoadForm(t, s) ==
    /\ tab' = [tab EXCEPT ![t] =
                 IF sessions[s].status = "none" THEN TabState("notFound", s, FALSE)
                 ELSE IF sessions[s].status # "active" THEN TabState("closed", s, FALSE)
                 ELSE IF s \in localStorage[DeviceOf(t)] THEN TabState("thanks", s, FALSE)
                 ELSE TabState("form", s, FALSE)]
    /\ UNCHANGED <<sessions, stored, adm, localStorage, cin, cout, now>>

\* handleSubmit marking the device before addResponse is awaited.
SubmitFormMarkFirst(t, input, ok) ==
    /\ tab[t].pc = "form"
    /\ LET s == tab[t].sid
       IN  IF MissingRequired(Questions, input)
           THEN /\ tab' = [tab EXCEPT ![t].error = TRUE]
                /\ UNCHANGED <<stored, localStorage>>
           ELSE /\ localStorage' = [localStorage EXCEPT ![DeviceOf(t)] = @ \cup {s}]
                /\ IF ok
                   THEN /\ stored' = [stored EXCEPT ![s] =
                                addResponse(@, DeviceOf(t), FormatAnswers(Questions, input))]
                        /\ tab' = [tab EXCEPT ![t] = TabState("thanks", s, FALSE)]
                   ELSE /\ tab' = [tab EXCEPT ![t].error = TRUE]
                        /\ UNCHANGED stored
    /\ UNCHANGED <<sessions, adm, cin, cout, now>>

\* handleSubmit; ok is whether addResponse succeeds.
SubmitForm(t, input, ok) ==
    /\ tab[t].pc = "form"
    /\ LET s == tab[t].sid
       IN  IF MissingRequired(Questions, input) \/ ~ok
           THEN /\ tab' = [tab EXCEPT ![t].error = TRUE]
                /\ UNCHANGED <<stored, localStorage>>
           ELSE /\ stored' = [stored EXCEPT ![s] =
                                addResponse(@, DeviceOf(t), FormatAnswers(Questions, input))]
                /\ localStorage' = [localStorage EXCEPT ![DeviceOf(t)] = @ \cup {s}]
                /\ tab' = [tab EXCEPT ![t] = TabState("thanks", s, FALSE)]
    /\ UNCHANGED <<sessions, adm, cin, cout, now>>

----------------------------------------------------------------------------
(* SessionsTab: an admin *)

\* Compilations the clock is followed through.
MaxClock == 2

\* handleCreateSession in create mode: createSession.
CreateSession(a, s, ok) ==
    /\ adm[a].pc = "idle"
    /\ sessions[s].status = "none"
    /\ IF ok
       THEN /\ sessions' = [sessions EXCEPT ![s] = Doc("active", NoStats)]
            /\ adm' = [adm EXCEPT ![a] = IdleAdmin("success")]
       ELSE /\ adm' = [adm EXCEPT ![a] = FailedAdmin("addDoc")]
            /\ UNCHANGED sessions
    /\ UNCHANGED <<stored, tab, localStorage, cin, cout, now>>

\* The row of a session in the admin's list shows a status the document has
\* or had: 'active' as created, 'inactive' once a close has written.
MayShow(s, status) ==
    /\ sessions[s].status # "none"
    /\ \/ status = sessions[s].status
       \/ status = "active"
       \/ status = "inactive" /\ sessions[s].compiledStats # NoStats

\* A close that adds its count to the count of an earlier compilation.
CloseMerge(doc, compiledStats) ==
    IF doc.compiledStats = NoStats THEN Doc("inactive", compiledStats)
    ELSE Doc("inactive",
             [compiledStats EXCEPT !.totalResponses = @ + doc.compiledStats.totalResponses])

\* A close that writes the status alone.
CloseStatusOnly(doc, compiledStats) == [doc EXCEPT !.status = "inactive"]

\* The update closeSessionWithStats writes.
CloseUpdate(doc, compiledStats) == Doc("inactive", compiledStats)

\* updateSession(id, { status: 'active' })
ActivateUpdate(doc) == [doc EXCEPT !.status = "active"]

\* updateSession(id, { ...formData }): the fields the form data holds.
EditUpdate(doc, formData) ==
    IF formData.compiledStats = NoStats
    THEN [doc EXCEPT !.status = formData.status]
    ELSE Doc(formData.status, formData.compiledStats)

\* A close that takes a failed fetch for an empty response set.
CloseFetchEmptyOnError(a, s, ok) ==
    /\ adm[a].pc = "idle"
    /\ MayShow(s, "active")
    /\ now < MaxClock
    /\ adm' = [adm EXCEPT ![a] =
                 [pc |-> "compiled", sid |-> s,
                  stats |-> compileSessionStats(
                                IF ok THEN getResponses(getResponsesCollection(s))
                                      ELSE <<>>, now),
                  formData |-> NoDoc, toast |-> "none",
                  failed |-> IF ok THEN "none" ELSE "getDocs"]]
    /\ now' = now + 1
    /\ UNCHANGED <<sessions, stored, tab, localStorage, cin, cout>>

\* handleToggleStatus on an 'active' row, up to the return of
\* compileSessionStats; ok is whether getResponses succeeds.
CloseFetch(a, s, ok) ==
    /\ adm[a].pc = "idle"
    /\ MayShow(s, "active")
    /\ IF ok
       THEN /\ now < MaxClock
            /\ adm' = [adm EXCEPT ![a] =
                         [pc |-> "compiled", sid |-> s,
                          stats |-> compileSessionStats(
                                        getResponses(getResponsesCollection(s)), now),
                          formData |-> NoDoc, toast |-> "none",
                          failed |-> "none"]]
            /\ now' = now + 1
       ELSE /\ adm' = [adm EXCEPT ![a] = FailedAdmin("getDocs")]
            /\ UNCHANGED now
    /\ UNCHANGED <<sessions, stored, tab, localStorage, cin, cout>>

\* A close whose failed write has set the status.
CloseWritePartial(a, ok) ==
    /\ adm[a].pc = "compiled"
    /\ sessions' = [sessions EXCEPT ![adm[a].sid] =
                      IF ok THEN CloseUpdate(@, adm[a].stats)
                      ELSE [@ EXCEPT !.status = "inactive"]]
    /\ adm' = [adm EXCEPT ![a] =
                 IF ok THEN IdleAdmin("success") ELSE FailedAdmin("updateDoc")]
    /\ UNCHANGED <<stored, tab, localStorage, cin, cout, now>>

\* The updateDoc of closeSessionWithStats; ok is whether it succeeds.
CloseWrite(a, ok) ==
    /\ adm[a].pc = "compiled"
    /\ IF ok
       THEN /\ sessions' = [sessions EXCEPT ![adm[a].sid] = CloseUpdate(@, adm[a].stats)]
            /\ adm' = [adm EXCEPT ![a] = IdleAdmin("success")]
       ELSE /\ adm' = [adm EXCEPT ![a] = FailedAdmin("updateDoc")]
            /\ UNCHANGED sessions
    /\ UNCHANGED <<stored, tab, localStorage, cin, cout, now>>

\* handleToggleStatus on a row that is not 'active'.
Reactivate(a, s, ok) ==
    /\ adm[a].pc = "idle"
    /\ MayShow(s, "inactive")
    /\ IF ok
       THEN /\ sessions' = [sessions EXCEPT ![s] = ActivateUpdate(@)]
            /\ adm' = [adm EXCEPT ![a] = IdleAdmin("success")]
       ELSE /\ adm' = [adm EXCEPT ![a] = FailedAdmin("updateDoc")]
            /\ UNCHANGED sessions
    /\ UNCHANGED <<stored, tab, localStorage, cin, cout, now>>

\* The Update menu item: formData is a copy of the row's session, taken here
\* as the document is when the dialog opens.
OpenEdit(a, s) ==
    /\ adm[a].pc = "idle"
    /\ sessions[s].status # "none"
    /\ adm' = [adm EXCEPT ![a] =
                 [pc |-> "editing", sid |-> s, stats |-> NoStats,
                  formData |-> sessions[s], toast |-> "none",
                  failed |-> "none"]]
    /\ UNCHANGED <<sessions, stored, tab, localStorage, cin, cout, now>>

\* handleCreateSession in edit mode: updateSession(editingSessionId, payload).
SaveEdit(a, ok) ==
    /\ adm[a].pc = "editing"
    /\ IF ok
       THEN /\ sessions' = [sessions EXCEPT ![adm[a].sid] = EditUpdate(@, adm[a].formData)]
            /\ adm' = [adm EXCEPT ![a] = IdleAdmin("success")]
       ELSE /\ adm' = [adm EXCEPT ![a].toast = "failed", ![a].failed = "updateDoc"]
            /\ UNCHANGED sessions
    /\ UNCHANGED <<stored, tab, localStorage, cin, cout, now>>

\* The dialog is dismissed: resetForm.
CancelEdit(a) ==
    /\ adm[a].pc = "editing"
    /\ adm' = [adm EXCEPT ![a] = IdleAdmin("none")]
    /\ UNCHANGED <<sessions, stored, tab, localStorage, cin, cout, now>>

\* Menu items offered for every session that has compiledStats.
OffersForAnyStats(session) == session.compiledStats # NoStats

\* session.status === 'inactive' && session.compiledStats: the row has the
\* View Analytics and Export to Excel menu items.
OffersAnalytics(session) ==
    session.status = "inactive" /\ session.compiledStats # NoStats

\* The stats confirmExport builds its workbook from, NoStats when it returns
\* without one.
ExportReport(session) ==
    IF session.compiledStats = NoStats THEN NoStats ELSE session.compiledStats

\* The View Analytics menu item: selectedSessionForAnalytics is the row.
ViewAnalytics(a, s) ==
    /\ adm[a].pc = "idle"
    /\ OffersAnalytics(sessions[s])
    /\ adm' = [adm EXCEPT ![a] =
                 [pc |-> "analytics", sid |-> s, stats |-> NoStats,
                  formData |-> sessions[s], toast |-> "none",
                  failed |-> "none"]]
    /\ UNCHANGED <<sessions, stored, tab, localStorage, cin, cout, now>>

\* The Export to Excel menu item, handleExportResponses: sessionToExport is
\* the row.
OpenExport(a, s) ==
    /\ adm[a].pc = "idle"
    /\ OffersAnalytics(sessions[s])
    /\ adm' = [adm EXCEPT ![a] =
                 [pc |-> "exporting", sid |-> s, stats |-> NoStats,
                  formData |-> sessions[s], toast |-> "none",
                  failed |-> "none"]]
    /\ UNCHANGED <<sessions, stored, tab, localStorage, cin, cout, now>>

\* confirmExport
ConfirmExport(a) ==
    /\ adm[a].pc = "exporting"
    /\ adm' = [adm EXCEPT ![a] =
                 IdleAdmin(IF ExportReport(adm[a].formData) = NoStats
                           THEN "failed" ELSE "success")]
    /\ UNCHANGED <<sessions, stored, tab, localStorage, cin, cout, now>>

\* The analytics view is left (onBack) or the export dialog cancelled.
Dismiss(a) ==
    /\ adm[a].pc \in {"analytics", "exporting"}
    /\ adm' = [adm EXCEPT ![a] = IdleAdmin("none")]
    /\ UNCHANGED <<sessions, stored, tab, localStorage, cin, cout, now>>

Next ==
    \/ \E t \in Tabs, s \in Focus : LoadForm(t, s)
    \/ \E t \in Tabs, input \in FormInputs, ok \in BOOLEAN : SubmitForm(t, input, ok)
    \/ \E a \in Admins, s \in Focus, ok \in BOOLEAN : CreateSession(a, s, ok)
    \/ \E a \in Admins, s \in Focus, ok \in BOOLEAN : CloseFetch(a, s, ok)
    \/ \E a \in Admins, ok \in BOOLEAN : CloseWrite(a, ok)
    \/ \E a \in Admins, s \in Focus, ok \in BOOLEAN : Reactivate(a, s, ok)
    \/ \E a \in Admins, s \in Focus : OpenEdit(a, s)
    \/ \E a \in Admins, ok \in BOOLEAN : SaveEdit(a, ok)
    \/ \E a \in Admins : CancelEdit(a)
    \/ \E a \in Admins, s \in Focus : ViewAnalytics(a, s)
    \/ \E a \in Admins, s \in Focus : OpenExport(a, s)
    \/ \E a \in Admins : ConfirmExport(a)
    \/ \E a \in Admins : Dismiss(a)

Spec == Init /\ [][Next]_vars

----------------------------------------------------------------------------
(* Two sessions: students submit to both and admins close both, no call    *)
(* fails                                                                   *)

NextPair ==
    \/ \E t \in Tabs, s \in Sessions : LoadForm(t, s)
    \/ \E t \in Tabs, input \in FormInputs : SubmitForm(t, input, TRUE)
    \/ \E a \in Admins, s \in Sessions : CreateSession(a, s, TRUE)
    \/ \E a \in Admins, s \in Sessions : CloseFetch(a, s, TRUE)
    \/ \E a \in Admins : CloseWrite(a, TRUE)

SpecPair == Init /\ [][NextPair]_vars

----------------------------------------------------------------------------
(* SessionsTab: the question list of a session through create and edit.   *)
(* A session document is followed here by its status, questions and       *)
(* templateId; the templates list is taken as loaded.                     *)

\* Longest question list a save is followed to.
MaxQuestions == 4

\* formData.templateId of a form without a template ('' in the form, null in
\* the document: both falsy).
NoTemplate == "none"

\* The ids of the loaded templates.
Templates == {"tplA", "tplB"}

\* selectedTemplate.sections.flatMap(section => section.questions || [])
templateQuestions(templateId) ==
    IF templateId = "tplA" THEN <<"q1">> ELSE <<"q2", "q3">>

SessionDoc(status, questions, templateId) ==
    [status |-> status, questions |-> questions, templateId |-> templateId]

\* The form as resetForm leaves it, with the template the admin selected.
NewForm(templateId) == SessionDoc("none", <<>>, templateId)

\* sessionPayload of handleCreateSession: the form's questions followed by
\* the questions of the form's template, in create and in edit mode alike.
sessionPayload(formData) ==
    [formData EXCEPT !.questions =
        IF formData.templateId # NoTemplate
        THEN @ \o templateQuestions(formData.templateId)
        ELSE @]

InitEdit ==
    /\ sessions = [s \in Sessions |-> SessionDoc("none", <<>>, NoTemplate)]
    /\ stored = [s \in Sessions |-> <<>>]
    /\ adm = [a \in Admins |-> IdleAdmin("none")]
    /\ tab = [t \in Tabs |-> NoTab]
    /\ localStorage = [d \in Devices |-> {}]
    /\ cin = <<>>
    /\ cout = NoStats
    /\ now = 0

\* handleCreateSession in create mode: createSession(sessionPayload).
CreateFromForm(a, s, templateId, ok) ==
    /\ adm[a].pc = "idle"
    /\ sessions[s].status = "none"
    /\ IF ok
       THEN /\ sessions' = [sessions EXCEPT ![s] =
                   SessionDoc("active",
                              sessionPayload(NewForm(templateId)).questions,
                              templateId)]
            /\ adm' = [adm EXCEPT ![a] = IdleAdmin("success")]
       ELSE /\ adm' = [adm EXCEPT ![a] = FailedAdmin("addDoc")]
            /\ UNCHANGED sessions
    /\ UNCHANGED <<stored, tab, localStorage, cin, cout, now>>

\* The Update menu item of a row: formData is the session.
OpenEditForm(a, s) ==
    /\ adm[a].pc = "idle"
    /\ sessions[s].status # "none"
    /\ adm' = [adm EXCEPT ![a] =
                 [IdleAdmin("none") EXCEPT !.pc = "editing", !.sid = s,
                                           !.formData = sessions[s]]]
    /\ UNCHANGED <<sessions, stored, tab, localStorage, cin, cout, now>>

\* handleCreateSession in edit mode, the form untouched:
\* updateSession(editingSessionId, sessionPayload).
SaveEditForm(a, ok) ==
    /\ adm[a].pc = "editing"
    /\ Len(sessionPayload(adm[a].formData).questions) <= MaxQuestions
    /\ IF ok
       THEN /\ sessions' = [sessions EXCEPT ![adm[a].sid] =
                               sessionPayload(adm[a].formData)]
            /\ adm' = [adm EXCEPT ![a] = IdleAdmin("success")]
       ELSE /\ adm' = [adm EXCEPT ![a].toast = "failed", ![a].failed = "updateDoc"]
            /\ UNCHANGED sessions
    /\ UNCHANGED <<stored, tab, localStorage, cin, cout, now>>

\* The dialog is dismissed: resetForm.
CancelEditForm(a) ==
    /\ adm[a].pc = "editing"
    /\ adm' = [adm EXCEPT ![a] = IdleAdmin("none")]
    /\ UNCHANGED <<sessions, stored, tab, localStorage, cin, cout, now>>

NextEdit ==
    \/ \E a \in Admins, s \in Sessions, templateId \in Templates \cup {NoTemplate},
          ok \in BOOLEAN : CreateFromForm(a, s, templateId, ok)
    \/ \E a \in Admins, s \in Sessions : OpenEditForm(a, s)
    \/ \E a \in Admins, ok \in BOOLEAN : SaveEditForm(a, ok)
    \/ \E a \in Admins : CancelEditForm(a)

SpecEdit == InitEdit /\ [][NextEdit]_vars

----------------------------------------------------------------------------
(* Properties of compileSessionStats, checked under SpecCompile *)

Compiled == cout # NoStats

CommentIds(comments) == {comments[i].responseId : i \in DOMAIN comments}

HasRating(response) == \E i \in DOMAIN response.answers : IsRating(response.answers[i])

RatingCount(response) ==
    Cardinality({i \in DOMAIN response.answers : IsRating(response.answers[i])})

RECURSIVE RatingTotal(_)
RatingTotal(answers) ==
    IF answers = <<>> THEN 0
    ELSE (IF Head(answers).type = "rating" THEN Head(answers).value ELSE 0)
         + RatingTotal(Tail(answers))

RECURSIVE SumOver(_, _)
SumOver(F(_), S) ==
    IF S = {} THEN 0
    ELSE LET x == CHOOSE y \in S : TRUE IN F(x) + SumOver(F, S \ {x})

RECURSIVE ProductOver(_, _)
ProductOver(F(_), S) ==
    IF S = {} THEN 1
    ELSE LET x == CHOOSE y \in S : TRUE IN F(x) * ProductOver(F, S \ {x})

\* h hundredths is num/den rounded to 2 decimals.
IsRounded(h, num, den) ==
    /\ 2 * (h * den - 100 * num) <= den
    /\ 2 * (100 * num - h * den) <= den

\* C1: the responseIds of topComments, avgComments and leastRatedComments of
\* one compiled record are pairwise disjoint, for every response set.
C1_BucketsDisjoint ==
    Compiled =>
        /\ CommentIds(cout.topComments) \cap CommentIds(cout.avgComments) = {}
        /\ CommentIds(cout.topComments) \cap CommentIds(cout.leastRatedComments) = {}
        /\ CommentIds(cout.avgComments) \cap CommentIds(cout.leastRatedComments) = {}

\* C4: the five ratingDistribution counts add up to the number of individual
\* rating answers of all responses.
C4_DistributionSum ==
    Compiled =>
        SumOver(LAMBDA v : cout.ratingDistribution[v], RatingScale)
            = SumOver(LAMBDA i : RatingCount(cin[i]), DOMAIN cin)

C4_Witness ==
    /\ Compiled
    /\ Len(cin) >= 2
    /\ SumOver(LAMBDA i : RatingCount(cin[i]), DOMAIN cin) > Len(cin)
    /\ \E i \in DOMAIN cin : ~HasRating(cin[i])

\* C5: a non-empty response set without any rating answer compiles to
\* avgRating = topRating = leastRating = 0.
C5_NoRatingsAllZero ==
    (Compiled /\ Len(cin) > 0 /\ \A i \in DOMAIN cin : ~HasRating(cin[i])) =>
        /\ cout.avgRating = 0
        /\ cout.topRating = 0
        /\ cout.leastRating = 0

Rated == {i \in DOMAIN cin : HasRating(cin[i])}

\* The mean of the per-response averages of the rated responses, as the
\* fraction MeanNum / MeanDen.
MeanNum ==
    SumOver(LAMBDA i : RatingTotal(cin[i].answers)
                        * ProductOver(LAMBDA j : RatingCount(cin[j]), Rated \ {i}),
            Rated)

MeanDen == Cardinality(Rated) * ProductOver(LAMBDA j : RatingCount(cin[j]), Rated)

\* Response i has the largest (smallest) average of the rated responses.
IsTop(i) ==
    \A j \in Rated : RatingTotal(cin[j].answers) * RatingCount(cin[i])
                        <= RatingTotal(cin[i].answers) * RatingCount(cin[j])

IsLeast(i) ==
    \A j \in Rated : RatingTotal(cin[i].answers) * RatingCount(cin[j])
                        <= RatingTotal(cin[j].answers) * RatingCount(cin[i])

AllSingleFive ==
    \A i \in DOMAIN cin :
        /\ RatingCount(cin[i]) = 1
        /\ RatingTotal(cin[i].answers) = 5

\* C6: avgRating, topRating and leastRating are the mean, the maximum and the
\* minimum of the per-response averages of the responses that have a rating
\* answer, rounded to 2 decimals; when every response has the one rating 5,
\* all three are 5, ratingDistribution[5] = N and the other counts are 0.
C6_RatedAggregates ==
    (Compiled /\ Rated # {}) =>
        /\ IsRounded(cout.avgRating, MeanNum, MeanDen)
        /\ \E i \in Rated :
              /\ IsTop(i)
              /\ IsRounded(cout.topRating, RatingTotal(cin[i].answers), RatingCount(cin[i]))
        /\ \E i \in Rated :
              /\ IsLeast(i)
              /\ IsRounded(cout.leastRating, RatingTotal(cin[i].answers), RatingCount(cin[i]))
        /\ AllSingleFive =>
              /\ cout.avgRating = 500
              /\ cout.topRating = 500
              /\ cout.leastRating = 500
              /\ \A v \in RatingScale :
                    cout.ratingDistribution[v] = IF v = 5 THEN Len(cin) ELSE 0

C6_Witness ==
    /\ Compiled
    /\ Rated # {}
    /\ Rated # DOMAIN cin
    /\ cout.leastRating < cout.avgRating
    /\ cout.avgRating < cout.topRating

\* C7: the empty response set compiles to totalResponses = 0, the three
\* rating aggregates 0, five zero counts and three empty comment lists.
C7_EmptyInput ==
    (Compiled /\ cin = <<>>) =>
        /\ cout.totalResponses = 0
        /\ cout.avgRating = 0
        /\ cout.topRating = 0
        /\ cout.leastRating = 0
        /\ DOMAIN cout.ratingDistribution = 1..5
        /\ \A v \in 1..5 : cout.ratingDistribution[v] = 0
        /\ cout.topComments = <<>>
        /\ cout.avgComments = <<>>
        /\ cout.leastRatedComments = <<>>

C7_Witness == Compiled /\ cin = <<>> /\ stored[Subject] = <<>>

Orderings(n) == {f \in [1..n -> 1..n] : \A i, j \in 1..n : f[i] = f[j] => i = j}

Permuted(s, f) == [i \in 1..Len(s) |-> s[f[i]]]

IsText(a) == a.type = "text"

\* A reordering of a response's answers that keeps its text answers in order.
TextsFirstRestReversed(response) ==
    Response(response.id, response.deviceId,
             SelectSeq(response.answers, IsText)
                 \o Reverse(SelectSeq(response.answers, LAMBDA a : ~IsText(a))))

Reorderings(s) ==
    {Permuted(t, f) : f \in Orderings(Len(s)),
                      t \in {s, [i \in 1..Len(s) |-> TextsFirstRestReversed(s[i])]}}

DistinctAverages ==
    \A i, j \in DOMAIN cin :
        i # j => RatingTotal(cin[i].answers) * (IF HasRating(cin[j]) THEN RatingCount(cin[j]) ELSE 1)
                 # RatingTotal(cin[j].answers) * (IF HasRating(cin[i]) THEN RatingCount(cin[i]) ELSE 1)

PlaceOf(id, sorted) == CHOOSE k \in DOMAIN sorted : sorted[k].responseId = id

\* C10: two responses with equal per-response average keep, in the sequence
\* sorted for bucketing, the relative order getResponses returned them in.
C10_StableTies ==
    Compiled =>
        LET sorted == sortedResponses(responseStats(cin))
        IN  \A i, j \in DOMAIN cin :
                (i < j /\ SameValue(responseStat(cin[i]).avgRating,
                                    responseStat(cin[j]).avgRating))
                    => PlaceOf(cin[i].id, sorted) < PlaceOf(cin[j].id, sorted)

C10_Witness ==
    /\ Compiled
    /\ Len(cin) = 3
    /\ RatingCount(cin[1]) = 2
    /\ SameValue(responseStat(cin[1]).avgRating, responseStat(cin[3]).avgRating)
    /\ Less(responseStat(cin[1]).avgRating, responseStat(cin[2]).avgRating)
    /\ cout.topComments # <<>>
    /\ cout.avgComments # <<>>
    /\ cout.leastRatedComments # <<>>
    /\ cout.avgComments[1].responseId = cin[1].id
    /\ cout.leastRatedComments[1].responseId = cin[3].id

\* The text has a character that is not white space.
NonBlank(text) == \E i \in DOMAIN text : text[i] \notin WhiteSpace

HasBlankText(response) ==
    \E i \in DOMAIN response.answers :
        /\ response.answers[i].type = "text"
        /\ ~NonBlank(response.answers[i].value)

\* C13: a text answer whose value is empty or white space only is in no
\* response's textComments and is no entry of topComments, avgComments or
\* leastRatedComments.
C13_NoBlankComments ==
    Compiled =>
        /\ \A i \in DOMAIN cin :
              LET texts == responseStat(cin[i]).textComments
              IN  \A k \in DOMAIN texts : NonBlank(texts[k])
        /\ \A comments \in {cout.topComments, cout.avgComments, cout.leastRatedComments} :
              \A k \in DOMAIN comments : NonBlank(comments[k].text)

\* The top response has a blank text answer only; the middle one has comments.
C13_Witness ==
    /\ Compiled
    /\ Len(cin) = 3
    /\ \E i \in DOMAIN cin :
          /\ HasBlankText(cin[i])
          /\ sortedResponses(responseStats(cin))[1].responseId = cin[i].id
    /\ cout.topComments = <<>>
    /\ Len(cout.avgComments) = 2

\* C21: only the responses with a rating answer are sorted and bucketed: the
\* bucket size is ceil(N/5) for N the number of such responses, and a response
\* without a rating answer has no entry in topComments, avgComments or
\* leastRatedComments.
C21_OnlyRatedBucketed ==
    Compiled =>
        /\ Len(highRated(sortedResponses(responseStats(cin))))
               = (Cardinality(Rated) + 4) \div 5
        /\ \A i \in DOMAIN cin :
              ~HasRating(cin[i]) =>
                  cin[i].id \notin CommentIds(cout.topComments)
                                    \cup CommentIds(cout.avgComments)
                                    \cup CommentIds(cout.leastRatedComments)

\* C26: in every compiled record leastRating <= avgRating <= topRating, also
\* when no response has a rating answer.
C26_AggregatesOrdered ==
    Compiled =>
        /\ cout.leastRating <= cout.avgRating
        /\ cout.avgRating <= cout.topRating

----------------------------------------------------------------------------
(* Properties of the aggregation on malformed responses, under SpecLoose *)

InScale(a) == a.type # "rating" \/ a.value \in 1..5

\* The responses without their rating answers outside 1..5.
WithoutMalformed(responses) ==
    [i \in DOMAIN responses |->
        [responses[i] EXCEPT !.answers = SelectSeq(@, InScale)]]

\* C22: a rating answer with a value outside 1..5 is discarded: the compiled
\* ratingDistribution, avgRating, topRating and leastRating are what they are
\* when that answer is absent from its response.
C22_MalformedDiscarded ==
    Compiled =>
        LET clean == compileSessionStats(WithoutMalformed(cin), cout.compiledAt)
        IN  /\ cout.ratingDistribution = clean.ratingDistribution
            /\ cout.avgRating = clean.avgRating
            /\ cout.topRating = clean.topRating
            /\ cout.leastRating = clean.leastRating

----------------------------------------------------------------------------
(* Properties of the buckets and their comments, checked under SpecRuns *)

\* The least k with 5 * k >= n.
FifthUp(n) == CHOOSE k \in 0..n : 5 * k >= n /\ (k = 0 \/ 5 * (k - 1) < n)

Ids(resps) == {resps[i].responseId : i \in DOMAIN resps}

\* The averages of a bucket, in hundredths, in bucket order.
Averages(resps) == [i \in DOMAIN resps |-> Round2(resps[i].avgRating)]

\* C11: with N responses in the sorted set, the high bucket is its first
\* ceil(N/5) responses, the low bucket its last ceil(N/5) and the middle bucket
\* the N - 2*ceil(N/5) between them (none when that is not positive); three
\* responses with averages 5, 3, 1 give high = [5], middle = [3], low = [1].
C11_BucketSizes ==
    Compiled =>
        LET sorted == sortedResponses(responseStats(cin))
            N      == Len(sorted)
            k      == FifthUp(N)
            high   == highRated(sorted)
            mid    == avgRated(sorted)
            low    == lowRated(sorted)
        IN  /\ Len(high) = k
            /\ \A i \in 1..k : high[i] = sorted[i]
            /\ Len(low) = k
            /\ Ids(low) = {sorted[i].responseId : i \in (N - k + 1)..N}
            /\ Len(mid) = IF N - 2 * k > 0 THEN N - 2 * k ELSE 0
            /\ \A i \in 1..Len(mid) : mid[i] = sorted[k + i]
            /\ (N = 3 /\ Averages(sorted) = <<500, 300, 100>>) =>
                  /\ Averages(high) = <<500>>
                  /\ Averages(mid) = <<300>>
                  /\ Averages(low) = <<100>>

\* Eleven responses in three buckets of 3, 5 and 3.
C11_Witness ==
    /\ Compiled
    /\ Len(cin) = 11
    /\ Len(highRated(sortedResponses(responseStats(cin)))) = 3
    /\ Len(avgRated(sortedResponses(responseStats(cin)))) = 5
    /\ Averages(sortedResponses(responseStats(cin)))[3] = 500
    /\ Averages(sortedResponses(responseStats(cin)))[4] = 300
    /\ Averages(sortedResponses(responseStats(cin)))[11] = 100

\* The textComments of the responses of a bucket, one after the other, each
\* with the response it comes from, up to the response that holds the n-th.
RECURSIVE BucketComments(_, _)
BucketComments(resps, n) ==
    IF resps = <<>> \/ n <= 0 THEN <<>>
    ELSE LET texts == Head(resps).textComments
         IN  [i \in DOMAIN texts |-> [text |-> texts[i], from |-> Head(resps)]]
                 \o BucketComments(Tail(resps), n - Len(texts))

\* comments is the first 5 elements of the comments of the bucket, each with
\* its response's id and rounded average.
IsFirstFive(comments, bucket) ==
    LET all == BucketComments(bucket, 5)
    IN  /\ Len(comments) = IF Len(all) < 5 THEN Len(all) ELSE 5
        /\ \A i \in DOMAIN comments :
              /\ comments[i].text = all[i].text
              /\ comments[i].responseId = all[i].from.responseId
              /\ IsRounded(comments[i].avgRating,
                           all[i].from.avgRating.n, all[i].from.avgRating.d)

TwoCommentsEach(bucket) == \A i \in DOMAIN bucket : Len(bucket[i].textComments) = 2

\* C12: each of topComments, avgComments and leastRatedComments has at most 5
\* entries and is the first 5 elements of the concatenation, in bucket order,
\* of the textComments of the bucket's responses, each entry with its response's
\* id and average rounded to 2 decimals; 10 top-bucket responses with 2
\* comments each give 5 topComments, 2 + 2 + 1 from the first three responses.
C12_FirstFiveComments ==
    Compiled =>
        LET sorted == sortedResponses(responseStats(cin))
            high   == highRated(sorted)
        IN  /\ IsFirstFive(cout.topComments, high)
            /\ IsFirstFive(cout.avgComments, avgRated(sorted))
            /\ IsFirstFive(cout.leastRatedComments, lowRated(sorted))
            /\ (Len(high) = 10 /\ TwoCommentsEach(high)) =>
                  [i \in DOMAIN cout.topComments |-> cout.topComments[i].responseId]
                      = <<high[1].responseId, high[1].responseId,
                          high[2].responseId, high[2].responseId,
                          high[3].responseId>>

C12_Witness ==
    /\ Compiled
    /\ Len(highRated(sortedResponses(responseStats(cin)))) = 10
    /\ TwoCommentsEach(highRated(sortedResponses(responseStats(cin))))
    /\ Len(cout.topComments) = 5
    /\ Len(cout.avgComments) = 5
    /\ cout.avgComments[1].avgRating = 500
    /\ cout.avgComments[3].avgRating = 300
    /\ Len(cout.leastRatedComments) = 5

\* C23: the entries of topComments are in non-increasing avgRating order,
\* those of leastRatedComments in non-decreasing order (lowest first), and
\* every topComments entry has an avgRating >= that of every avgComments
\* entry, which has one >= that of every leastRatedComments entry.
C23_CommentsInRatingOrder ==
    Compiled =>
        /\ \A i, j \in DOMAIN cout.topComments :
              i < j => cout.topComments[i].avgRating >= cout.topComments[j].avgRating
        /\ \A i, j \in DOMAIN cout.leastRatedComments :
              i < j => cout.leastRatedComments[i].avgRating
                           <= cout.leastRatedComments[j].avgRating
        /\ \A i \in DOMAIN cout.topComments, j \in DOMAIN cout.avgComments :
              cout.topComments[i].avgRating >= cout.avgComments[j].avgRating
        /\ \A i \in DOMAIN cout.avgComments, j \in DOMAIN cout.leastRatedComments :
              cout.avgComments[i].avgRating >= cout.leastRatedComments[j].avgRating

\* Each list holds comments of responses with different averages.
C23_Witness ==
    /\ Compiled
    /\ Len(cout.topComments) = 5
    /\ cout.topComments[1].avgRating > cout.topComments[5].avgRating
    /\ Len(cout.leastRatedComments) >= 3
    /\ cout.leastRatedComments[1].avgRating < cout.leastRatedComments[3].avgRating
    /\ Len(cout.avgComments) >= 1
    /\ cout.avgComments[1].avgRating = 300

\* C24: computing the statistics has no side effect: the step that returns
\* the compiled record leaves the stored responses and every session's
\* status and compiledStats as they were, and the fetched response objects
\* are, at the return, the stored ones in fetch order (newest first).
C24_CompileHasNoSideEffect ==
    [][cout' # cout =>
          /\ stored' = stored
          /\ sessions' = sessions
          /\ cin' = getResponses(getResponsesCollection(Subject))]_vars

\* A record was compiled from fetched responses that are not in rating
\* order, so that the sort had something to move.
C24_Witness ==
    /\ Compiled
    /\ Len(cin) >= 3
    /\ \E i \in DOMAIN cin :
          sortedResponses(responseStats(cin))[i].responseId # cin[i].id
    /\ cin = getResponses(getResponsesCollection(Subject))

----------------------------------------------------------------------------
(* Properties of the session lifecycle, checked under Spec *)

\* C2: a session whose status is 'inactive' has a compiledStats record, after
\* any sequence of creations, closes, reactivations, edits and submissions.
C2_ClosedHasStats ==
    \A s \in Sessions :
        sessions[s].status = "inactive" => sessions[s].compiledStats # NoStats

\* Closed for the second time, after an edit was saved, with two responses.
C2_Witness ==
    \E s \in Sessions :
        /\ sessions[s].status = "inactive"
        /\ sessions[s].compiledStats # NoStats
        /\ sessions[s].compiledStats.compiledAt = 1
        /\ sessions[s].compiledStats.totalResponses = 2
        /\ \E a \in Admins : adm[a].pc = "editing" /\ adm[a].formData.status = "active"
                              /\ adm[a].formData.compiledStats # NoStats

\* C14: when the fetch of the responses fails during a close, the admin gets
\* the error (the error toast, no close in progress), no session document is
\* written, and status and compiledStats are what they were before.
C14_FetchFailure ==
    [][\A a \in Admins :
          (adm'[a] # adm[a] /\ adm'[a].failed = "getDocs") =>
              /\ adm'[a].pc = "idle"
              /\ adm'[a].toast = "failed"
              /\ sessions' = sessions]_vars

\* A close of a reactivated session has failed at its fetch: the session is
\* active, with the stats of its first close and a response stored since.
C14_Witness ==
    \E a \in Admins, s \in Sessions :
        /\ adm[a].failed = "getDocs"
        /\ sessions[s].status = "active"
        /\ sessions[s].compiledStats # NoStats
        /\ sessions[s].compiledStats.totalResponses = 0
        /\ Len(stored[s]) = 1

\* C15: when the write of a close fails, the admin gets the error and the
\* session document is as it was: a status 'active' stays 'active' and
\* compiledStats does not change, neither field alone.
C15_WriteFailure ==
    [][\A a \in Admins :
          (adm[a].pc = "compiled" /\ adm'[a].failed = "updateDoc") =>
              /\ adm'[a].pc = "idle"
              /\ adm'[a].toast = "failed"
              /\ sessions' = sessions]_vars

\* A close has failed at its write, after compiling one response: the session
\* is active and has no compiledStats.
C15_Witness ==
    \E a \in Admins, s \in Sessions :
        /\ adm[a].pc = "idle"
        /\ adm[a].failed = "updateDoc"
        /\ sessions[s].status = "active"
        /\ sessions[s].compiledStats = NoStats
        /\ Len(stored[s]) = 1
        /\ now = 1

\* C16: when a close completes, also a close of a session that was closed
\* before and reactivated, every field of compiledStats is the compilation of
\* the responses that close fetched: nothing of the earlier record is kept.
C16_RecloseReplaces ==
    [][\A a \in Admins :
          (adm[a].pc = "compiled" /\ adm'[a].pc = "idle" /\ adm'[a].failed = "none") =>
              LET s == adm[a].sid
              IN  /\ sessions'[s].status = "inactive"
                  /\ \E k \in 0..Len(stored[s]) :
                        sessions'[s].compiledStats =
                            compileSessionStats(getResponses(SubSeq(stored[s], 1, k)),
                                                adm[a].stats.compiledAt)]_vars

\* Closed with one response, reactivated, closed again with two: an edit
\* dialog opened in between still shows the record of the first close.
C16_Witness ==
    \E a \in Admins, s \in Sessions :
        /\ adm[a].pc = "editing"
        /\ adm[a].formData.compiledStats # NoStats
        /\ adm[a].formData.compiledStats.compiledAt = 0
        /\ adm[a].formData.compiledStats.totalResponses = 1
        /\ Len(adm[a].formData.compiledStats.topComments) = 1
        /\ sessions[s].status = "inactive"
        /\ sessions[s].compiledStats.compiledAt = 1
        /\ sessions[s].compiledStats.totalResponses = 2
        /\ sessions[s].compiledStats.topComments = <<>>

\* C17: compiledStats is written by a close only (not by a reactivation, an
\* edit save or a submission), and an edit save does not change the status,
\* also when the dialog was opened before another admin closed, reactivated or
\* closed again the same session.
C17_StatsWrittenByCloseOnly ==
    [][\A s \in Sessions :
          /\ sessions'[s].compiledStats # sessions[s].compiledStats =>
                \E a \in Admins :
                    adm[a].pc = "compiled" /\ adm[a].sid = s /\ adm'[a].pc = "idle"
          /\ (\E a \in Admins :
                    adm[a].pc = "editing" /\ adm[a].sid = s /\ adm'[a].pc = "idle")
                => sessions'[s].status = sessions[s].status]_vars

\* C18: a stored response is never modified or removed: after every step the
\* responses of a session are the ones it had, followed by the new ones.
C18_ResponsesAppendOnly ==
    [][\A s \in Sessions :
          /\ Len(stored'[s]) >= Len(stored[s])
          /\ SubSeq(stored'[s], 1, Len(stored[s])) = stored[s]]_vars

\* Two different responses are stored, one before a close and one after it;
\* the session has been reactivated and the save of an edit of it has failed.
C18_Witness ==
    \E s \in Sessions :
        /\ Len(stored[s]) = 2
        /\ stored[s][1].answers # stored[s][2].answers
        /\ sessions[s].status = "active"
        /\ sessions[s].compiledStats # NoStats
        /\ sessions[s].compiledStats.totalResponses = 1
        /\ \E a \in Admins : adm[a].pc = "editing" /\ adm[a].toast = "failed"
                              /\ adm[a].formData.status = "active"
                              /\ adm[a].formData.compiledStats # NoStats

\* C19: a close of session A reads A's responses only and writes A's document
\* only: the stats an admin holds after the fetch are the compilation of A's
\* responses, the write leaves every other session's document as it is, and
\* the stats written are a compilation of responses of A, whatever was
\* submitted to or closed in another session meanwhile.
C19_ClosesIndependent ==
    [][\A a \in Admins :
          /\ (adm[a].pc = "idle" /\ adm'[a].pc = "compiled") =>
                /\ adm'[a].stats =
                      compileSessionStats(Reverse(stored[adm'[a].sid]), now)
                /\ sessions' = sessions
          /\ (adm[a].pc = "compiled" /\ adm'[a].pc = "idle") =>
                LET A == adm[a].sid
                IN  /\ \A B \in Sessions \ {A} : sessions'[B] = sessions[B]
                    /\ \E k \in 0..Len(stored[A]) :
                          sessions'[A].compiledStats =
                              compileSessionStats(Reverse(SubSeq(stored[A], 1, k)),
                                                  adm[a].stats.compiledAt)]_vars

\* One admin has closed s1 on its one response while the other admin's close
\* of s2, which has a different response, is between its fetch and its write.
C19_Witness ==
    /\ sessions["s1"].status = "inactive"
    /\ sessions["s1"].compiledStats.totalResponses = 1
    /\ sessions["s1"].compiledStats.compiledAt = 1
    /\ Len(stored["s1"]) = 1
    /\ Len(stored["s2"]) = 1
    /\ stored["s1"][1].answers # stored["s2"][1].answers
    /\ sessions["s2"].status = "active"
    /\ \E a \in Admins :
          /\ adm[a].pc = "compiled"
          /\ adm[a].sid = "s2"
          /\ adm[a].stats.compiledAt = 0
          /\ adm[a].stats.totalResponses = 0

\* C20: the analytics view and the export are opened only on a session row
\* whose status is 'inactive' and that has compiledStats, so what they read is
\* the compiledStats of a session that has been closed; a session without
\* compiledStats is offered neither and an export of it builds no report.
C20_AnalyticsOfClosedOnly ==
    /\ \A a \in Admins :
          adm[a].pc \in {"analytics", "exporting"} =>
              /\ adm[a].formData.status = "inactive"
              /\ adm[a].formData.compiledStats # NoStats
              /\ sessions[adm[a].sid].compiledStats # NoStats
              /\ ExportReport(adm[a].formData) = adm[a].formData.compiledStats
    /\ \A s \in Sessions :
          sessions[s].compiledStats = NoStats =>
              /\ ~OffersAnalytics(sessions[s])
              /\ ExportReport(sessions[s]) = NoStats

\* An admin is about to export a session closed on one response, which the
\* other admin has reactivated since and which has a second response now.
C20_Witness ==
    \E a \in Admins, s \in Sessions :
        /\ adm[a].pc = "exporting"
        /\ adm[a].sid = s
        /\ adm[a].formData.compiledStats.totalResponses = 1
        /\ sessions[s].status = "active"
        /\ Len(stored[s]) = 2

\* C3: whenever a session's status is 'inactive', compiledStats.totalResponses
\* is the number of responses stored for the session.
C3_ClosedStatsCurrent ==
    \A s \in Sessions :
        sessions[s].status = "inactive" =>
            sessions[s].compiledStats.totalResponses = Len(stored[s])

\* C25: every answer of every stored response has a value: a rating other
\* than 0 or a non-empty text; a question left unanswered has no entry.
C25_StoredAnswersHaveValues ==
    \A s \in Sessions : \A i \in DOMAIN stored[s] :
        \A k \in DOMAIN stored[s][i].answers :
            LET a == stored[s][i].answers[k]
            IN  /\ a.type \in {"rating", "text"}
                /\ HasValue(a)

\* A response is stored whose optional comment was left out, next to one
\* that has both answers.
C25_Witness ==
    \E s \in Sessions : \E i, j \in DOMAIN stored[s] :
        /\ Len(stored[s][i].answers) = 1
        /\ Len(stored[s][j].answers) = 2

\* C27: a closed session accepts no responses: a response is stored for a
\* session only in a step that starts with that session's status 'active'.
C27_ClosedAcceptsNoResponse ==
    [][\A s \in Sessions :
          stored'[s] # stored[s] => sessions[s].status = "active"]_vars

\* C28: a device submits at most one response per session: no two stored
\* responses of one session carry the same device.
C28_OneResponsePerDevice ==
    \A s \in Sessions : \A i, j \in DOMAIN stored[s] :
        stored[s][i].deviceId = stored[s][j].deviceId => i = j

\* C29: a submission that does not succeed leaves no trace: the step in
\* which a tab's form shows the error (a required question unanswered, or
\* addResponse rejected) stores no response and marks no device, and the tab
\* still shows the form.
C29_FailedSubmissionLeavesNoTrace ==
    [][\A t \in Tabs :
          (tab'[t].error /\ ~tab[t].error) =>
              /\ stored' = stored
              /\ localStorage' = localStorage
              /\ tab'[t].pc = "form"]_vars

\* A tab shows the error on its form while the device is unmarked and its
\* session active with nothing stored: the student can submit again.
C29_Witness ==
    \E t \in Tabs :
        /\ tab[t].error
        /\ tab[t].pc = "form"
        /\ tab[t].sid \in Sessions
        /\ tab[t].sid \notin localStorage[DeviceOf(t)]
        /\ stored[tab[t].sid] = <<>>
        /\ sessions[tab[t].sid].status = "active"

----------------------------------------------------------------------------
(* Properties of the question list, checked under SpecEdit *)

\* C30: saving an edit of a session without changing its questions leaves
\* the stored question list as it was: no step changes the questions of a
\* session that exists.
C30_EditSaveKeepsQuestions ==
    [][\A s \in Sessions :
          sessions[s].status # "none" =>
              sessions'[s].questions = sessions[s].questions]_vars

============================================================================
